---- MODULE Spec2Model ----
(***************************************************************************)
(* Model of the OnePulse mini-app registration sequencer                   *)
(* (src/components/RegistrationFlow.tsx, first revision, lines 1-620):     *)
(* the React component state, the mount effect, the form handlers and the  *)
(* asynchronous continuations of every awaited call.                       *)
(***************************************************************************)
EXTENDS Integers, Sequences, FiniteSets, TLC

\* ------------------------------------------------------------------ bounds
MaxMounts == 2
MaxReloads == 1
MaxResend == 1

\* ------------------------------------------------------------------ values
None == <<>>
Some(x) == <<x>>
Undef == "undefined"

Phones == {<<>>, <<1, 2, 3>>, <<1, 0, 0, 0, 0>>, <<2, 0, 0, 0, 0>>}
Codes == {"", "123456"}
Accounts == {"", "1000111"}
DeviceIds == {"dev1", "dev2"}

Outcomes == {"ok", "http_msg", "http_nomsg", "network", "badjson"}

LoadingStatuses ==
  {"checking", "processing-registration", "verifying-otp", "verifying-customer"}

\* The environments the sequencer is run in: what the three identity
\* sources hold.  sdk = retrieveLaunchParams(), webApp = window.Telegram.WebApp,
\* url = the tgWebAppData of the page URL.
Environments ==
  { [sdk |-> [throws |-> FALSE, user |-> Some([id |-> 1, named |-> TRUE]), raw |-> "tok_sdk"],
     webApp |-> [present |-> TRUE, user |-> None, raw |-> ""],
     url |-> [data |-> Undef, parses |-> TRUE, user |-> None]],
    [sdk |-> [throws |-> TRUE, user |-> None, raw |-> Undef],
     webApp |-> [present |-> TRUE, user |-> None, raw |-> ""],
     url |-> [data |-> "tok_url", parses |-> TRUE, user |-> Some([id |-> 3, named |-> TRUE])]],
    [sdk |-> [throws |-> TRUE, user |-> None, raw |-> Undef],
     webApp |-> [present |-> FALSE, user |-> None, raw |-> Undef],
     url |-> [data |-> Undef, parses |-> TRUE, user |-> None]],
    [sdk |-> [throws |-> FALSE, user |-> None, raw |-> Undef],
     webApp |-> [present |-> TRUE, user |-> Some([id |-> 2, named |-> FALSE]), raw |-> "tok_unsafe"],
     url |-> [data |-> Undef, parses |-> TRUE, user |-> None]] }

\* what a source may hold as its user of id i: nothing, a well-formed record,
\* a record without id (id 0), a record without first name
UserOptions(i) ==
  {None, Some([id |-> i, named |-> TRUE]), Some([id |-> 0, named |-> TRUE]),
   Some([id |-> i, named |-> FALSE])}

\* every combination of the three sources
AllEnvironments ==
  { [sdk |-> s, webApp |-> w, url |-> u] :
      s \in {[throws |-> TRUE, user |-> None, raw |-> Undef]}
             \cup [throws : {FALSE}, user : UserOptions(1), raw : {Undef, "tok_sdk"}],
      w \in {[present |-> FALSE, user |-> None, raw |-> Undef]}
             \cup [present : {TRUE}, user : UserOptions(2), raw : {"", "tok_unsafe"}],
      u \in {[data |-> Undef, parses |-> TRUE, user |-> None],
             [data |-> "tok_url", parses |-> FALSE, user |-> None]}
             \cup [data : {"tok_url"}, parses : {TRUE}, user : UserOptions(3)] }

VARIABLES
  backendUrl,          \* BACKEND_URL is configured
  tgEnv,               \* the identity sources of the page
  storedDeviceId,      \* localStorage 'device_id' ("" when absent)
  status,
  errorMessage,
  phoneNumber,
  activationCode,
  accountNumber,
  currentUser,
  initDataRawString,
  cachedDeviceInfo,
  hasChecked,
  procs,               \* suspended async handlers, each awaiting one call
  log,                 \* backend requests issued since the page was loaded
  lastAlert,           \* text of the last alert() shown
  ipLookup,            \* the ipapi.co lookup of the last getDeviceInfo() call
  mounts,              \* invocations of the mount effect since the page was loaded
  reloads,             \* window.location.reload() calls
  isMounted,           \* TelegramInitializer state
  telegramReady,       \* TelegramInitializer state
  bootstrapTimer,      \* the 100 ms retry timer of TelegramInitializer
  hostLoaded,          \* the host script has defined window.Telegram.WebApp
  hostReady,           \* tg.ready() has been called
  attempts,            \* tryBootstrap() calls since the effect last ran
  perCall              \* the per-call-status revision run on the same inputs:
                       \* its status and the requests it has issued

vars == <<backendUrl, tgEnv, storedDeviceId, status, errorMessage, phoneNumber,
          activationCode, accountNumber, currentUser, initDataRawString,
          cachedDeviceInfo, hasChecked, procs, log, lastAlert, ipLookup, mounts,
          reloads, isMounted, telegramReady, bootstrapTimer, hostLoaded, hostReady,
          attempts, perCall>>

envVars == <<backendUrl, tgEnv>>
inputVars == <<phoneNumber, activationCode, accountNumber>>
identityVars == <<currentUser, initDataRawString, hasChecked>>
initializerVars ==
  <<isMounted, telegramReady, bootstrapTimer, hostLoaded, hostReady, attempts>>

\* ------------------------------------------------------- identity resolver
\* initData?.user of the launch parameters (undefined when the lookup throws)
SdkUser(e) == IF e.sdk.throws THEN None ELSE e.sdk.user

\* mapUnsafeUser(webApp?.initDataUnsafe?.user)
UnsafeUser(e) == IF e.webApp.present THEN e.webApp.user ELSE None

\* parseUserFromInitDataString(getInitDataFromUrl()): no URL data, a user
\* payload that JSON.parse rejects, or the mapped user object
UrlUser(e) == IF e.url.data = Undef \/ ~e.url.parses THEN None ELSE e.url.user

ResolveUser(e) ==
  IF SdkUser(e) # None THEN SdkUser(e)
  ELSE IF UnsafeUser(e) # None THEN UnsafeUser(e)
  ELSE UrlUser(e)

\* a ?? b
Nullish(a, b) == IF a = Undef THEN b ELSE a

ResolveToken_Independent(e) ==
  LET t1 == IF e.sdk.throws THEN Undef ELSE e.sdk.raw
      t2 == Nullish(t1, IF e.webApp.present THEN e.webApp.raw ELSE Undef)
  IN  Nullish(t2, e.url.data)

ResolveToken(e) ==
  LET t1 == IF e.sdk.throws THEN Undef ELSE e.sdk.raw
      t2 == Nullish(t1, IF e.webApp.present THEN e.webApp.raw ELSE Undef)
  IN  IF SdkUser(e) = None /\ UnsafeUser(e) = None
        THEN Nullish(t2, e.url.data)
        ELSE t2

\* ----------------------------------------------------------- request client
NoBody == [kind |-> "none"]

\* the JSON body the backend returns with a success status
BackendBody(url) ==
  IF url = "device-session-start" THEN [kind |-> "json", session_id |-> "sess1"]
  ELSE IF url = "verifyCustomer"
    THEN [kind |-> "json", customer_id |-> "cust1", product_code |-> "prod1"]
  ELSE [kind |-> "json"]

\* the X-Telegram-Init header of a request: set only for a truthy token
InitHeader(token) == IF token = Undef \/ token = "" THEN "absent" ELSE token

Request(url, payload, token) ==
  [url |-> url, payload |-> payload, init |-> InitHeader(token),
   res |-> "pending", outcome |-> "pending", err |-> "", body |-> NoBody]

ErrMessage_StatusOnly(o) ==
  CASE o \in {"http_msg", "http_nomsg"} -> "Request failed: status text"
    [] o = "network" -> "Failed to fetch"
    [] OTHER -> "Unexpected end of JSON input"

\* err.message of the Error authenticatedFetch throws
ErrMessage(o) ==
  CASE o = "http_msg" -> "server message"
    [] o = "http_nomsg" -> "Request failed: status text"
    [] o = "network" -> "Failed to fetch"
    [] OTHER -> "Unexpected end of JSON input"

Succeeded_Always(o) == TRUE

Succeeded_StatusOnly(o) == o \in {"ok", "badjson"}

\* authenticatedFetch returns the parsed body only for a success status whose
\* body parses; everything else is thrown
Succeeded(o) == o = "ok"

Settled(i, o) ==
  [log EXCEPT ![i].res = IF o = "ok" THEN "ok" ELSE "fail",
              ![i].outcome = o,
              ![i].err = IF o = "ok" THEN "" ELSE ErrMessage(o),
              ![i].body = IF o = "ok" THEN BackendBody(log[i].url) ELSE NoBody]

\* the telegram id as the number it is
NumId(u) == <<"number", u.id>>

StrId_Number(u) == <<"number", u.id>>

\* currentUser.id.toString()
StrId(u) == <<"string", u.id>>

\* the render closure a handler runs in
Closure ==
  [currentUser |-> currentUser, phoneNumber |-> phoneNumber,
   activationCode |-> activationCode, accountNumber |-> accountNumber,
   initDataRawString |-> initDataRawString, cachedDeviceInfo |-> cachedDeviceInfo]

\* the closure of the first render, which the mount effect keeps
FirstRender ==
  [currentUser |-> None, phoneNumber |-> <<>>, activationCode |-> "",
   accountNumber |-> "", initDataRawString |-> Undef, cachedDeviceInfo |-> None]

Proc(h, at, req, cl, dev) ==
  [h |-> h, at |-> at, req |-> req, cl |-> cl, dev |-> dev]

StepProcs == {p \in procs : p.h # "resend"}

\* the component state that makes up the Session Context
SessionContext ==
  [currentUser |-> currentUser, initDataRawString |-> initDataRawString,
   phoneNumber |-> phoneNumber, activationCode |-> activationCode,
   accountNumber |-> accountNumber, cachedDeviceInfo |-> cachedDeviceInfo]

\* what the component keeps about a failure
FailureRecord == [message |-> errorMessage]

\* ------------------------------------ the revision with per-call statuses
\* (src/components/RegistrationFlow.tsx lines 1020-1530), run on the inputs
\* and outcomes the full revision is run on
Rev3Initial == [status |-> "idle", token |-> Undef, calls |-> <<>>]

\* setStatus(s)
Rev3Set(s) == [perCall EXCEPT !.status = s]

\* the endpoint, body and X-Telegram-Init header of a request
Call(url, payload, token) ==
  [url |-> url, payload |-> payload, init |-> InitHeader(token)]

\* setStatus(s) followed by an awaited authenticatedFetch(url, payload) of a
\* step handler; the token is set by the mount effect alone, so the handler's
\* closure holds the current one
Rev3Call(s, url, payload) ==
  [perCall EXCEPT !.status = s,
                  !.calls = Append(perCall.calls, Call(url, payload, perCall.token))]

\* initDataRaw of the per-call revision: the host object's initData is read
\* only when the launch parameters gave no user
ResolveToken3(e) ==
  LET t1 == IF e.sdk.throws THEN Undef ELSE e.sdk.raw
      t2 == IF SdkUser(e) = None
              THEN Nullish(t1, IF e.webApp.present THEN e.webApp.raw ELSE Undef)
              ELSE t1
  IN  IF SdkUser(e) = None /\ UnsafeUser(e) = None
        THEN Nullish(t2, e.url.data)
        ELSE t2

SessionStatus3 == "starting-session"

\* setStatus('sim-verifying') before SIM-Verify is issued
SimStatus3 == "sim-verifying"

\* TelegramInitializer before its first render and effect
InitializerIdle ==
  /\ isMounted = FALSE
  /\ telegramReady = FALSE
  /\ bootstrapTimer = "unset"
  /\ hostReady = FALSE
  /\ attempts = 0

\* the sequencer on its own, as RegistrationFlow.tsx defines it
Init ==
  /\ backendUrl \in BOOLEAN
  /\ tgEnv \in Environments
  /\ storedDeviceId \in {"", "dev1"}
  /\ status = "idle"
  /\ errorMessage = ""
  /\ phoneNumber = <<>>
  /\ activationCode = ""
  /\ accountNumber = ""
  /\ currentUser = None
  /\ initDataRawString = Undef
  /\ cachedDeviceInfo = None
  /\ hasChecked = FALSE
  /\ procs = {}
  /\ log = <<>>
  /\ lastAlert = ""
  /\ ipLookup = "none"
  /\ mounts = 0
  /\ reloads = 0
  /\ InitializerIdle
  /\ hostLoaded = FALSE
  /\ perCall = Rev3Initial

\* ------------------------------------------------------------ mount effect
CheckIdPayload(u) == [telegram_id |-> NumId(u), phone_number |-> <<>>]

NoIdentityStatus_Error == "error"

\* setStatus('invalid-environment') when no source yielded a user
NoIdentityStatus == "invalid-environment"

PerformCheck ==
  LET tgUser == ResolveUser(tgEnv)
      raw == ResolveToken(tgEnv)
  IN  IF tgUser = None
        THEN /\ status' = NoIdentityStatus
             /\ UNCHANGED <<errorMessage, currentUser, initDataRawString, procs, log>>
      ELSE IF ~tgUser[1].named
        THEN \* tgUser.firstName.replace throws; the catch block reports it
             /\ currentUser' = tgUser
             /\ initDataRawString' = raw
             /\ errorMessage' = "TypeError"
             /\ status' = "error"
             /\ UNCHANGED <<procs, log>>
      ELSE /\ currentUser' = tgUser
           /\ initDataRawString' = raw
           /\ status' = "checking"
           /\ log' = Append(log, Request("checkTelegramID", CheckIdPayload(tgUser[1]),
                                         FirstRender.initDataRawString))
           /\ procs' = procs \cup {Proc("check", "checkTelegramID", Len(log) + 1, FirstRender, None)}
           /\ UNCHANGED errorMessage

UrlMissing_Unchecked == FALSE

\* !BACKEND_URL
UrlMissing == ~backendUrl

AlreadyChecked_Never == FALSE

\* the single-fire guard of the mount effect
AlreadyChecked == hasChecked

\* the mount effect of the per-call revision; the request it issues is built
\* in the closure of the first render
mountEffect3 ==
  LET tgUser == ResolveUser(tgEnv)
      raw == ResolveToken3(tgEnv)
  IN  IF UrlMissing THEN Rev3Set("error")
      ELSE IF AlreadyChecked THEN perCall
      ELSE IF tgUser = None THEN Rev3Set("invalid-environment")
      ELSE IF ~tgUser[1].named
        THEN [perCall EXCEPT !.status = "error", !.token = raw]
      ELSE [status |-> "checking", token |-> raw,
            calls |-> Append(perCall.calls,
                             Call("checkTelegramID",
                                  [telegram_id |-> <<"number", tgUser[1].id>>,
                                   phone_number |-> <<>>],
                                  FirstRender.initDataRawString))]

Mount ==
  /\ mounts < MaxMounts
  /\ mounts' = mounts + 1
  /\ IF UrlMissing
       THEN /\ status' = "error"
            /\ errorMessage' = "The backend URL is not configured correctly."
            /\ UNCHANGED <<identityVars, procs, log>>
     ELSE IF AlreadyChecked
       THEN UNCHANGED <<status, errorMessage, identityVars, procs, log>>
     ELSE /\ hasChecked' = TRUE
          /\ PerformCheck
  /\ perCall' = mountEffect3
  /\ UNCHANGED <<envVars, initializerVars, ipLookup, storedDeviceId, inputVars, cachedDeviceInfo, lastAlert, reloads>>

\* awaited checkTelegramID returns to performCheck
CheckReturn(p, o) ==
  /\ p \in procs /\ p.h = "check"
  /\ log' = Settled(p.req, o)
  /\ procs' = procs \ {p}
  /\ IF Succeeded(o)
       THEN /\ status' = "id-verified"
            /\ UNCHANGED errorMessage
       ELSE /\ errorMessage' = ErrMessage(o)
            /\ status' = "error"
  /\ perCall' = Rev3Set(IF Succeeded(o) THEN "id-verified" ELSE "error")
  /\ UNCHANGED <<envVars, initializerVars, ipLookup, storedDeviceId, inputVars, identityVars, cachedDeviceInfo,
                 lastAlert, mounts, reloads>>

\* the Continue button of the per-call revision, rendered in id-verified
handleStartRegistration ==
  IF perCall.status = "id-verified" THEN Rev3Set("phone-entry") ELSE perCall

\* ---------------------------------------------------------------- handlers
CatchStatus_Form == "phone-entry"

CatchStatus_Loading == status

\* the catch block of a step handler
CatchStatus == "error"

Catch(o) ==
  /\ errorMessage' = ErrMessage(o)
  /\ status' = CatchStatus

handleContinueToPhone ==
  /\ status = "id-verified"
  /\ status' = "phone-entry"
  /\ perCall' = handleStartRegistration
  /\ UNCHANGED <<envVars, initializerVars, ipLookup, storedDeviceId, errorMessage, inputVars, identityVars,
                 cachedDeviceInfo, procs, log, lastAlert, mounts, reloads>>

PhoneInputShown_InOtp == status \in {"phone-entry", "otp-entry"}

\* the phone input is rendered by the phone-entry screen only
PhoneInputShown == status = "phone-entry"

\* onChange of the phone input
TypePhone(v) ==
  /\ PhoneInputShown
  /\ v # phoneNumber
  /\ phoneNumber' = v
  /\ UNCHANGED <<envVars, initializerVars, perCall, ipLookup, storedDeviceId, status, errorMessage, activationCode,
                 accountNumber, identityVars, cachedDeviceInfo, procs, log, lastAlert,
                 mounts, reloads>>

\* onChange of the code input
TypeCode(v) ==
  /\ status = "otp-entry"
  /\ v # activationCode
  /\ activationCode' = v
  /\ UNCHANGED <<envVars, initializerVars, perCall, ipLookup, storedDeviceId, status, errorMessage, phoneNumber,
                 accountNumber, identityVars, cachedDeviceInfo, procs, log, lastAlert,
                 mounts, reloads>>

\* onChange of the account input
TypeAccount(v) ==
  /\ status = "account-entry"
  /\ v # accountNumber
  /\ accountNumber' = v
  /\ UNCHANGED <<envVars, initializerVars, perCall, ipLookup, storedDeviceId, status, errorMessage, phoneNumber,
                 activationCode, identityVars, cachedDeviceInfo, procs, log, lastAlert,
                 mounts, reloads>>

ShareContactPayload(cl) ==
  [phone_number |-> cl.phoneNumber, telegram_id |-> NumId(cl.currentUser[1])]

DeviceSessionPayload(cl, deviceInfo) ==
  [device_info |-> deviceInfo, phone_number |-> cl.phoneNumber,
   telegram_id |-> StrId(cl.currentUser[1])]

SimVerifyPayload(cl, deviceInfo) ==
  [device_fingerprint |-> deviceInfo.fingerprint, phone_number |-> cl.phoneNumber,
   telegram_id |-> StrId(cl.currentUser[1])]

VerifyCodePayload(cl) ==
  [activation_code |-> cl.activationCode, phone_number |-> cl.phoneNumber,
   telegram_id |-> StrId(cl.currentUser[1])]

ResendCodePayload(cl) ==
  [phone_number |-> cl.phoneNumber, telegram_id |-> StrId(cl.currentUser[1])]

VerifyCustomerPayload(cl) ==
  [account_number |-> cl.accountNumber, device_id |-> cl.cachedDeviceInfo[1].device_id,
   phone_number |-> cl.phoneNumber, telegram_id |-> StrId(cl.currentUser[1])]

PhoneLoadingStatus_Form == "phone-entry"

OtpLoadingStatus_Form == "otp-entry"

AccountLoadingStatus_Phone == "phone-entry"

\* the status a handler shows while its calls are outstanding
PhoneLoadingStatus == "processing-registration"
OtpLoadingStatus == "verifying-otp"
AccountLoadingStatus == "verifying-customer"

\* a handler issues its first call and suspends
Start(h, url, payload) ==
  /\ log' = Append(log, Request(url, payload, Closure.initDataRawString))
  /\ procs' = procs \cup {Proc(h, url, Len(log) + 1, Closure, None)}

\* a suspended handler resumes after a success and issues its next call
Continue(p, o, url, payload, deviceInfo) ==
  /\ log' = Append(IF p.req = 0 THEN log ELSE Settled(p.req, o),
                   Request(url, payload, p.cl.initDataRawString))
  /\ procs' = (procs \ {p}) \cup {Proc(p.h, url, Len(log) + 1, p.cl, deviceInfo)}

\* a suspended handler resumes for the last time
Finish(p, o) ==
  /\ log' = Settled(p.req, o)
  /\ procs' = procs \ {p}

PhoneValid_Any(v) == TRUE

\* the client-side validation of the phone number
PhoneValid(v) == ~(Len(v) < 5)

\* the handlers of the per-call revision, each behind the form of its screen
handlePhoneSubmit3 ==
  IF perCall.status # "phone-entry" \/ currentUser = None \/ phoneNumber = <<>>
       \/ Len(phoneNumber) < 5
    THEN perCall
    ELSE Rev3Call("submitting-phone", "share-contact", ShareContactPayload(Closure))

handleOtpSubmit3 ==
  IF perCall.status # "otp-entry" \/ currentUser = None
    THEN perCall
    ELSE Rev3Call("verifying-otp", "verifyCode", VerifyCodePayload(Closure))

handleResendCode3 ==
  IF perCall.status # "otp-entry" \/ currentUser = None
    THEN perCall
    ELSE Rev3Call(perCall.status, "resendCode", ResendCodePayload(Closure))

handleAccountSubmit3 ==
  IF perCall.status # "account-entry" \/ currentUser = None \/ cachedDeviceInfo = None
    THEN perCall
    ELSE Rev3Call("verifying-customer", "verifyCustomer", VerifyCustomerPayload(Closure))

\* the form is rendered in phone-entry only; the handler runs up to its first
\* await inside the submit event, so the loading screen replaces the form
\* before another event is dispatched
handlePhoneSubmit ==
  /\ status = "phone-entry"
  /\ IF currentUser = None \/ phoneNumber = <<>>
       THEN UNCHANGED <<status, procs, log, lastAlert>>
     ELSE IF ~PhoneValid(phoneNumber)
       THEN /\ lastAlert' = "Invalid phone"
            /\ UNCHANGED <<status, procs, log>>
     ELSE /\ status' = PhoneLoadingStatus
          /\ Start("phone", "share-contact", ShareContactPayload(Closure))
          /\ UNCHANGED lastAlert
  /\ perCall' = handlePhoneSubmit3
  /\ UNCHANGED <<envVars, initializerVars, ipLookup, storedDeviceId, errorMessage, inputVars, identityVars,
                 cachedDeviceInfo, mounts, reloads>>

\* share-contact returns: on success the handler calls getDeviceInfo(), which
\* arms the 2 s abort timer and suspends on the ipapi.co fetch
ShareContactReturn(p, o) ==
  /\ p \in procs /\ p.h = "phone" /\ p.at = "share-contact"
  /\ IF Succeeded(o)
       THEN /\ log' = Settled(p.req, o)
            /\ procs' = (procs \ {p}) \cup {Proc(p.h, "ipapi-fetch", 0, p.cl, None)}
            /\ ipLookup' = "fetching"
            /\ UNCHANGED <<status, errorMessage>>
       ELSE /\ Finish(p, o)
            /\ Catch(o)
            /\ UNCHANGED ipLookup
  /\ perCall' = Rev3Set(IF Succeeded(o) THEN SessionStatus3 ELSE "error")
  /\ UNCHANGED <<envVars, initializerVars, storedDeviceId, inputVars, identityVars, cachedDeviceInfo,
                 lastAlert, mounts, reloads>>

\* where getDeviceInfo() can be suspended: on the fetch, on res.json()
IpStages == {"ipapi-fetch", "ipapi-json"}

\* how the ipapi.co lookup can end
IpFetchResults == {"ok", "http", "network"}
IpBodyResults == {"ok", "nofields", "badjson"}
IpFailures == {"http", "network", "abort", "badjson"}

\* a || b for text, and for a number (None when the field is missing)
Or(a, b) == IF a = Undef \/ a = "" THEN b ELSE a
OrNumber(a, b) == IF a = None \/ a = Some(0) THEN b ELSE a

\* the initial ipData
IpDefaults ==
  [ip |-> "0.0.0.0", city |-> "Unknown", country_name |-> "Unknown",
   latitude |-> Some(0), longitude |-> Some(0)]

\* ipData after the lookup ended with result r: the parsed body replaces the
\* defaults only for a success status whose body parses to a truthy value
IpData(r) ==
  CASE r = "ok" -> [ip |-> "198.51.100.7", city |-> "Addis Ababa",
                    country_name |-> "Ethiopia", latitude |-> Some(9), longitude |-> Some(38)]
    [] r = "nofields" -> [ip |-> Undef, city |-> Undef, country_name |-> Undef,
                          latitude |-> None, longitude |-> None]
    [] OTHER -> IpDefaults

\* btoa(`${deviceId}-${ua}-${width}`).slice(0, 16)
Fingerprint(deviceId) == <<"b64", deviceId>>

\* the geo_location of the record
GeoLocation(ipData) ==
  [city |-> Or(ipData.city, "Unknown"), country |-> Or(ipData.country_name, "Unknown"),
   lat |-> <<"string", OrNumber(ipData.latitude, Some(0))[1]>>,
   lon |-> <<"string", OrNumber(ipData.longitude, Some(0))[1]>>]

\* the record getDeviceInfo() resolves with
DeviceInfo(deviceId, ipData) ==
  [device_id |-> deviceId, fingerprint |-> Fingerprint(deviceId),
   geo_location |-> GeoLocation(ipData), ip_address |-> Or(ipData.ip, "0.0.0.0")]

CacheDeviceInfo_Forgotten(deviceInfo) == cachedDeviceInfo

\* setCachedDeviceInfo(deviceInfo)
CacheDeviceInfo(deviceInfo) == Some(deviceInfo)

\* getDeviceInfo() resolves after its lookup ended with result r: the record
\* is cached and device-session-start issued
DeviceInfoReturn(p, r, fresh) ==
  LET deviceId == IF storedDeviceId = "" THEN fresh ELSE storedDeviceId
      deviceInfo == DeviceInfo(deviceId, IpData(r))
  IN  /\ ipLookup' = r
      /\ storedDeviceId' = deviceId
      /\ cachedDeviceInfo' = CacheDeviceInfo(deviceInfo)
      /\ Continue(p, "ok", "device-session-start", DeviceSessionPayload(p.cl, deviceInfo),
                  Some(deviceInfo))
      /\ perCall' = Rev3Call(perCall.status, "device-session-start",
                          DeviceSessionPayload(p.cl, deviceInfo))
      /\ UNCHANGED <<envVars, initializerVars, status, errorMessage, inputVars, identityVars, lastAlert,
                     mounts, reloads>>

IpFetchFailed_Throws(p, r, fresh) ==
  /\ ipLookup' = r
  /\ procs' = procs \ {p}
  /\ errorMessage' = "Failed to fetch"
  /\ status' = "error"
  /\ UNCHANGED <<envVars, initializerVars, perCall, storedDeviceId, inputVars, identityVars, cachedDeviceInfo,
                 log, lastAlert, mounts, reloads>>

\* the lookup failed before a body was read: .catch(() => null) and the
\* res.ok test leave ipData at its defaults
IpFetchFailed(p, r, fresh) == DeviceInfoReturn(p, r, fresh)

\* the ipapi.co fetch settles: with a success status the timer is cleared and
\* the body awaited
IpFetchReturn(p, r, fresh) ==
  /\ p \in procs /\ p.h = "phone" /\ p.at = "ipapi-fetch"
  /\ IF r = "ok"
       THEN /\ procs' = (procs \ {p}) \cup {Proc(p.h, "ipapi-json", 0, p.cl, None)}
            /\ ipLookup' = "reading"
            /\ UNCHANGED <<envVars, initializerVars, perCall, storedDeviceId, status, errorMessage, inputVars,
                           identityVars, cachedDeviceInfo, log, lastAlert, mounts, reloads>>
       ELSE IpFetchFailed(p, r, fresh)

\* the 2 s timer fires while the fetch is outstanding: controller.abort()
\* rejects the fetch
IpTimeout(p, fresh) ==
  /\ p \in procs /\ p.h = "phone" /\ p.at = "ipapi-fetch"
  /\ IpFetchFailed(p, "abort", fresh)

\* res.json() settles
IpJsonReturn(p, r, fresh) ==
  /\ p \in procs /\ p.h = "phone" /\ p.at = "ipapi-json"
  /\ DeviceInfoReturn(p, r, fresh)

DeviceSessionReturn(p, o) ==
  /\ p \in procs /\ p.h = "phone" /\ p.at = "device-session-start"
  /\ IF Succeeded(o)
       THEN /\ Continue(p, o, "SIM-Verify", SimVerifyPayload(p.cl, p.dev[1]), p.dev)
            /\ UNCHANGED <<status, errorMessage>>
       ELSE /\ Finish(p, o)
            /\ Catch(o)
  /\ perCall' = IF Succeeded(o)
                  THEN Rev3Call(SimStatus3, "SIM-Verify", SimVerifyPayload(p.cl, p.dev[1]))
                  ELSE Rev3Set("error")
  /\ UNCHANGED <<envVars, initializerVars, ipLookup, storedDeviceId, inputVars, identityVars, cachedDeviceInfo,
                 lastAlert, mounts, reloads>>

PhoneSuccessStatus_SkipOtp == "account-entry"

PhoneSuccessStatus == "otp-entry"

DeviceInfoAfterFailure_Cleared == None

\* the catch block of handlePhoneSubmit leaves the cached record as it is
DeviceInfoAfterFailure == cachedDeviceInfo

SimVerifyReturn(p, o) ==
  /\ p \in procs /\ p.h = "phone" /\ p.at = "SIM-Verify"
  /\ Finish(p, o)
  /\ IF Succeeded(o)
       THEN /\ status' = PhoneSuccessStatus
            /\ UNCHANGED <<errorMessage, cachedDeviceInfo>>
       ELSE /\ Catch(o)
            /\ cachedDeviceInfo' = DeviceInfoAfterFailure
  /\ perCall' = Rev3Set(IF Succeeded(o) THEN "otp-entry" ELSE "error")
  /\ UNCHANGED <<envVars, initializerVars, ipLookup, storedDeviceId, inputVars, identityVars, lastAlert, mounts,
                 reloads>>

\* the form is rendered in otp-entry only and its input is `required`, so
\* the browser raises no submit event for an empty code
handleOtpSubmit ==
  /\ status = "otp-entry"
  /\ activationCode # ""
  /\ IF currentUser = None
       THEN UNCHANGED <<status, procs, log>>
       ELSE /\ status' = OtpLoadingStatus
            /\ Start("otp", "verifyCode", VerifyCodePayload(Closure))
  /\ perCall' = handleOtpSubmit3
  /\ UNCHANGED <<envVars, initializerVars, ipLookup, storedDeviceId, errorMessage, inputVars, identityVars,
                 cachedDeviceInfo, lastAlert, mounts, reloads>>

OtpSuccessStatus_Completed == "completed"

\* setStatus('account-entry') after the awaited verifyCode
OtpSuccessStatus == "account-entry"

VerifyCodeReturn(p, o) ==
  /\ p \in procs /\ p.h = "otp"
  /\ Finish(p, o)
  /\ IF Succeeded(o)
       THEN /\ status' = OtpSuccessStatus
            /\ UNCHANGED errorMessage
       ELSE Catch(o)
  /\ perCall' = Rev3Set(IF Succeeded(o) THEN "account-entry" ELSE "error")
  /\ UNCHANGED <<envVars, initializerVars, ipLookup, storedDeviceId, inputVars, identityVars, cachedDeviceInfo,
                 lastAlert, mounts, reloads>>

ResendCount == Cardinality({i \in 1..Len(log) : log[i].url = "resendCode"})

handleResendCode ==
  /\ status = "otp-entry"
  /\ ResendCount < MaxResend
  /\ IF currentUser = None
       THEN UNCHANGED <<procs, log>>
       ELSE Start("resend", "resendCode", ResendCodePayload(Closure))
  /\ perCall' = handleResendCode3
  /\ UNCHANGED <<envVars, initializerVars, ipLookup, storedDeviceId, status, errorMessage, inputVars, identityVars,
                 cachedDeviceInfo, lastAlert, mounts, reloads>>

ResendFailureStatus_Error == "error"

\* the catch block of handleResendCode only alerts: the status stays as it is
ResendFailureStatus == status

ResendAlert(o) ==
  IF Succeeded(o) THEN "Code resent successfully!" ELSE "Failed to resend code"

ResendReturn(p, o) ==
  /\ p \in procs /\ p.h = "resend"
  /\ Finish(p, o)
  /\ lastAlert' = ResendAlert(o)
  /\ status' = IF Succeeded(o) THEN status ELSE ResendFailureStatus
  /\ UNCHANGED <<envVars, initializerVars, perCall, ipLookup, storedDeviceId, errorMessage, inputVars, identityVars,
                 cachedDeviceInfo, mounts, reloads>>

\* the form is rendered in account-entry only and its input is `required`
handleAccountSubmit ==
  /\ status = "account-entry"
  /\ accountNumber # ""
  /\ IF currentUser = None \/ cachedDeviceInfo = None
       THEN UNCHANGED <<status, procs, log>>
       ELSE /\ status' = AccountLoadingStatus
            /\ Start("account", "verifyCustomer", VerifyCustomerPayload(Closure))
  /\ perCall' = handleAccountSubmit3
  /\ UNCHANGED <<envVars, initializerVars, ipLookup, storedDeviceId, errorMessage, inputVars, identityVars,
                 cachedDeviceInfo, lastAlert, mounts, reloads>>

AccountSuccessStatus_Stay == "account-entry"

\* setStatus('completed') after the awaited verifyCustomer
AccountSuccessStatus == "completed"

VerifyCustomerReturn(p, o) ==
  /\ p \in procs /\ p.h = "account"
  /\ Finish(p, o)
  /\ IF Succeeded(o)
       THEN /\ status' = AccountSuccessStatus
            /\ UNCHANGED errorMessage
       ELSE Catch(o)
  /\ perCall' = Rev3Set(IF Succeeded(o) THEN "completed" ELSE "error")
  /\ UNCHANGED <<envVars, initializerVars, ipLookup, storedDeviceId, inputVars, identityVars, cachedDeviceInfo,
                 lastAlert, mounts, reloads>>

RetryStatus_FailedStep == "phone-entry"

\* the Retry button of the error screen: window.location.reload()
RetryStatus == "idle"

GuardAfterReload_Kept == hasChecked

\* the reloaded page creates the component anew: useRef(false)
GuardAfterReload == FALSE

ErrorScreenShown_WhileLoading == status = "error" \/ status \in LoadingStatuses

\* the error screen, the only one with the Retry button
ErrorScreenShown == status = "error"

Reload ==
  /\ ErrorScreenShown
  /\ reloads < MaxReloads
  /\ reloads' = reloads + 1
  /\ status' = RetryStatus
  /\ errorMessage' = ""
  /\ phoneNumber' = <<>>
  /\ activationCode' = ""
  /\ accountNumber' = ""
  /\ currentUser' = None
  /\ initDataRawString' = Undef
  /\ cachedDeviceInfo' = None
  /\ hasChecked' = GuardAfterReload
  /\ procs' = {}
  /\ log' = <<>>
  /\ lastAlert' = ""
  /\ ipLookup' = "none"
  /\ mounts' = 0
  /\ perCall' = IF perCall.status = "error" THEN Rev3Initial ELSE perCall
  /\ UNCHANGED <<envVars, initializerVars, storedDeviceId>>

Next ==
  \/ Mount
  \/ \E p \in procs, o \in Outcomes : CheckReturn(p, o)
  \/ handleContinueToPhone
  \/ \E v \in Phones : TypePhone(v)
  \/ \E v \in Codes : TypeCode(v)
  \/ \E v \in Accounts : TypeAccount(v)
  \/ handlePhoneSubmit
  \/ \E p \in procs, o \in Outcomes : ShareContactReturn(p, o)
  \/ \E p \in procs, r \in IpFetchResults, fresh \in DeviceIds : IpFetchReturn(p, r, fresh)
  \/ \E p \in procs, fresh \in DeviceIds : IpTimeout(p, fresh)
  \/ \E p \in procs, r \in IpBodyResults, fresh \in DeviceIds : IpJsonReturn(p, r, fresh)
  \/ \E p \in procs, o \in Outcomes : DeviceSessionReturn(p, o)
  \/ \E p \in procs, o \in Outcomes : SimVerifyReturn(p, o)
  \/ handleOtpSubmit
  \/ \E p \in procs, o \in Outcomes : VerifyCodeReturn(p, o)
  \/ handleResendCode
  \/ \E p \in procs, o \in Outcomes : ResendReturn(p, o)
  \/ handleAccountSubmit
  \/ \E p \in procs, o \in Outcomes : VerifyCustomerReturn(p, o)
  \/ Reload

Spec == Init /\ [][Next]_vars

\* ------------------------------------------- the resolver on every input
\* the mount effect run on every combination of the three sources
InitResolver ==
  /\ backendUrl = TRUE
  /\ tgEnv \in AllEnvironments
  /\ storedDeviceId = ""
  /\ status = "idle"
  /\ errorMessage = ""
  /\ phoneNumber = <<>>
  /\ activationCode = ""
  /\ accountNumber = ""
  /\ currentUser = None
  /\ initDataRawString = Undef
  /\ cachedDeviceInfo = None
  /\ hasChecked = FALSE
  /\ procs = {}
  /\ log = <<>>
  /\ lastAlert = ""
  /\ ipLookup = "none"
  /\ mounts = 0
  /\ reloads = 0
  /\ InitializerIdle
  /\ hostLoaded = FALSE
  /\ perCall = Rev3Initial

NextResolver ==
  \/ Mount
  \/ \E p \in procs, o \in Outcomes : CheckReturn(p, o)

SpecResolver == InitResolver /\ [][NextResolver]_vars

\* ------------------------------- the sequencer under TelegramInitializer
\* window.Telegram?.WebApp
HostPresent == hostLoaded /\ tgEnv.webApp.present

BootstrapBlocked_Never == FALSE

\* if (!tg) return false
BootstrapBlocked == ~HostPresent

\* tryBootstrap(): tg.ready(), tg.expand(), tg.disableVerticalSwipes(),
\* setTelegramReady(true) when the host object is there
tryBootstrap ==
  IF BootstrapBlocked
    THEN UNCHANGED <<telegramReady, hostReady>>
    ELSE /\ hostReady' = TRUE
         /\ telegramReady' = TRUE

\* what TelegramInitializer renders
Screen ==
  IF ~isMounted THEN "initializing"
  ELSE IF ~telegramReady THEN "waiting"
  ELSE "children"

flowVars ==
  <<storedDeviceId, status, errorMessage, phoneNumber, activationCode, accountNumber,
    currentUser, initDataRawString, cachedDeviceInfo, hasChecked, procs, log, lastAlert,
    ipLookup, mounts, reloads, perCall>>

\* the effect of TelegramInitializer: on mount, and again when the component
\* is remounted after its cleanup
InitializerEffect ==
  /\ bootstrapTimer \in {"unset", "cleared"}
  /\ isMounted' = TRUE
  /\ attempts' = 1
  /\ tryBootstrap
  /\ bootstrapTimer' = IF BootstrapBlocked THEN "pending" ELSE "none"
  /\ UNCHANGED <<envVars, hostLoaded, flowVars>>

TimerAfterRetry_Rearmed == IF BootstrapBlocked THEN "pending" ELSE "fired"

\* the timer callback calls tryBootstrap() and sets no further timer
TimerAfterRetry == "fired"

\* the 100 ms timer fires: the second and last attempt
BootstrapTimeout ==
  /\ bootstrapTimer = "pending"
  /\ bootstrapTimer' = TimerAfterRetry
  /\ attempts' = attempts + 1
  /\ tryBootstrap
  /\ UNCHANGED <<envVars, isMounted, hostLoaded, flowVars>>

\* the cleanup the effect returned: clearTimeout(timeout)
InitializerCleanup ==
  /\ bootstrapTimer = "pending"
  /\ bootstrapTimer' = "cleared"
  /\ UNCHANGED <<envVars, isMounted, telegramReady, hostLoaded, hostReady, attempts,
                 flowVars>>

\* the host script finishes loading
HostLoads ==
  /\ ~hostLoaded
  /\ hostLoaded' = TRUE
  /\ UNCHANGED <<envVars, isMounted, telegramReady, bootstrapTimer, hostReady, attempts,
                 flowVars>>

\* the children are rendered, and their effects run, only on the last return
ChildMount ==
  /\ Screen = "children"
  /\ Mount

InitInitializer ==
  /\ backendUrl \in BOOLEAN
  /\ tgEnv \in Environments
  /\ storedDeviceId = ""
  /\ status = "idle"
  /\ errorMessage = ""
  /\ phoneNumber = <<>>
  /\ activationCode = ""
  /\ accountNumber = ""
  /\ currentUser = None
  /\ initDataRawString = Undef
  /\ cachedDeviceInfo = None
  /\ hasChecked = FALSE
  /\ procs = {}
  /\ log = <<>>
  /\ lastAlert = ""
  /\ ipLookup = "none"
  /\ mounts = 0
  /\ reloads = 0
  /\ InitializerIdle
  /\ hostLoaded \in BOOLEAN
  /\ perCall = Rev3Initial

NextInitializer ==
  \/ InitializerEffect
  \/ BootstrapTimeout
  \/ InitializerCleanup
  \/ HostLoads
  \/ ChildMount
  \/ \E p \in procs, o \in Outcomes : CheckReturn(p, o)

SpecInitializer == InitInitializer /\ [][NextInitializer]_vars

\* ------------------------------------------------ timers that must fire
\* the abort timer of getDeviceInfo() fires when its 2 s have passed; nothing
\* obliges the network to deliver a response
SpecTimers ==
  Spec /\ WF_vars(\E p \in procs, fresh \in DeviceIds : IpTimeout(p, fresh))

\* ------------------------------------------- calls that always complete
\* every issued backend request settles and every lookup of getDeviceInfo()
\* settles or is aborted; nothing obliges the user to act.  The backend URL
\* is configured and the device id already stored.
InitCompleting ==
  /\ Init
  /\ backendUrl
  /\ storedDeviceId = "dev1"

SpecCompleting ==
  /\ InitCompleting /\ [][Next]_vars
  /\ WF_vars(\E p \in procs, o \in Outcomes : CheckReturn(p, o))
  /\ WF_vars(\E p \in procs, o \in Outcomes : ShareContactReturn(p, o))
  /\ WF_vars(\E p \in procs, fresh \in DeviceIds :
               \/ IpTimeout(p, fresh)
               \/ \E r \in IpFetchResults : IpFetchReturn(p, r, fresh))
  /\ WF_vars(\E p \in procs, r \in IpBodyResults, fresh \in DeviceIds : IpJsonReturn(p, r, fresh))
  /\ WF_vars(\E p \in procs, o \in Outcomes : DeviceSessionReturn(p, o))
  /\ WF_vars(\E p \in procs, o \in Outcomes : SimVerifyReturn(p, o))
  /\ WF_vars(\E p \in procs, o \in Outcomes : VerifyCodeReturn(p, o))
  /\ WF_vars(\E p \in procs, o \in Outcomes : ResendReturn(p, o))
  /\ WF_vars(\E p \in procs, o \in Outcomes : VerifyCustomerReturn(p, o))

\* ------------------------------------ the two revisions on one more page
\* launch parameters that carry the user but no raw string, on a page whose
\* host object holds the initialization data
HostTokenOnly ==
  [sdk |-> [throws |-> FALSE, user |-> Some([id |-> 1, named |-> TRUE]), raw |-> Undef],
   webApp |-> [present |-> TRUE, user |-> None, raw |-> "tok_unsafe"],
   url |-> [data |-> Undef, parses |-> TRUE, user |-> None]]

InitRevisions ==
  /\ backendUrl = TRUE
  /\ tgEnv \in Environments \cup {HostTokenOnly}
  /\ storedDeviceId = "dev1"
  /\ status = "idle"
  /\ errorMessage = ""
  /\ phoneNumber = <<>>
  /\ activationCode = ""
  /\ accountNumber = ""
  /\ currentUser = None
  /\ initDataRawString = Undef
  /\ cachedDeviceInfo = None
  /\ hasChecked = FALSE
  /\ procs = {}
  /\ log = <<>>
  /\ lastAlert = ""
  /\ ipLookup = "none"
  /\ mounts = 0
  /\ reloads = 0
  /\ InitializerIdle
  /\ hostLoaded = FALSE
  /\ perCall = Rev3Initial

SpecRevisions == InitRevisions /\ [][Next]_vars

\* ------------------------------------------------------------ properties
CountUrl(u) == Cardinality({i \in 1..Len(log) : log[i].url = u})

PhoneStepUrls == {"share-contact", "device-session-start", "SIM-Verify"}

\* the form step a backend call belongs to
StepOf(url) ==
  CASE url \in PhoneStepUrls -> "phone-entry"
    [] url = "verifyCode" -> "otp-entry"
    [] url = "verifyCustomer" -> "account-entry"
    [] OTHER -> "checking"

\* the failed calls of a step (the resend side action is not a step)
FailedCalls == {i \in 1..Len(log) : log[i].res = "fail" /\ log[i].url # "resendCode"}

IdentityUsable == ResolveUser(tgEnv) # None /\ ResolveUser(tgEnv)[1].named

\* C1: with a configured backend URL and a usable identity, any number of
\* invocations of the mount effect issue exactly one checkTelegramID request:
\* the first invocation issues it, every later invocation issues no request
\* and leaves the step state unchanged.
C1_SingleFire ==
  /\ [](CountUrl("checkTelegramID") <= 1)
  /\ []((backendUrl /\ IdentityUsable /\ mounts >= 1) => CountUrl("checkTelegramID") = 1)
  /\ [][(backendUrl /\ mounts' = mounts + 1 /\ mounts >= 1)
          => (log' = log /\ status' = status /\ procs' = procs)]_vars

\* two mount invocations while the first identity check is still outstanding
C1_Witness ==
  /\ backendUrl /\ mounts = 2 /\ status = "checking"
  /\ \E p \in procs : p.h = "check" /\ log[p.req].res = "pending"
  /\ CountUrl("checkTelegramID") = 1

\* C2: the phone step issues share-contact, device-session-start and
\* SIM-Verify in this order, each only after the previous one returned
\* success; a failed call of the step is the last request issued, leaves the
\* wizard in error, and verifyCode is issued only after SIM-Verify succeeded.
C2_PhoneStepSequential ==
  \A i \in 1..Len(log) :
    /\ log[i].url = "device-session-start"
         => i > 1 /\ log[i - 1].url = "share-contact" /\ log[i - 1].res = "ok"
    /\ log[i].url = "SIM-Verify"
         => i > 1 /\ log[i - 1].url = "device-session-start" /\ log[i - 1].res = "ok"
    /\ log[i].url = "verifyCode"
         => \E j \in 1..(i - 1) : log[j].url = "SIM-Verify" /\ log[j].res = "ok"
    /\ (log[i].url \in PhoneStepUrls /\ log[i].res = "fail")
         => i = Len(log) /\ status = "error" /\ procs = {}

\* SIM-Verify, the third call of the step, has failed
C2_Witness ==
  /\ status = "error"
  /\ Len(log) = 4
  /\ log[4].url = "SIM-Verify" /\ log[4].res = "fail"
  /\ log[3].res = "ok" /\ log[2].res = "ok"

\* C3 (as stated): in error after a failed call of a step, the Failure Record
\* holds the step that was active when the call failed.
C3_Original ==
  \A i \in FailedCalls :
    /\ "step" \in DOMAIN FailureRecord
    /\ FailureRecord.step = StepOf(log[i].url)

\* C3 (amended): after a failed call of a step the wizard is in error and the
\* Failure Record holds the message of that failure and nothing else; the
\* step that was active is not recorded.
C3_FailureRecordIsMessage ==
  \A i \in FailedCalls :
    /\ status = "error"
    /\ FailureRecord = [message |-> log[i].err]

\* a verify-code failure with the server's message
C3_Witness ==
  /\ status = "error"
  /\ \E i \in FailedCalls : log[i].url = "verifyCode" /\ errorMessage = "server message"
\* the step recorded at failure time, as far as the requests tell it
FailedStep ==
  IF FailedCalls = {} THEN "none"
  ELSE StepOf(log[CHOOSE i \in FailedCalls : TRUE].url)

\* the step preceding a step in the transition table
PrecedingStep(step) ==
  CASE step = "checking" -> "idle"
    [] step = "phone-entry" -> "id-verified"
    [] step = "otp-entry" -> "phone-entry"
    [] step = "account-entry" -> "otp-entry"
    [] OTHER -> "none"

EmptyContext ==
  /\ currentUser = None /\ initDataRawString = Undef /\ cachedDeviceInfo = None
  /\ phoneNumber = <<>> /\ activationCode = "" /\ accountNumber = ""

FormSteps == {"phone-entry", "otp-entry", "account-entry"}

\* C4 (as stated): the retry action taken in error after a failed phone, code
\* or account step puts the wizard in the step in which the failure occurred.
C4_Original ==
  [][(reloads' = reloads + 1 /\ FailedStep \in FormSteps) => status' = FailedStep]_vars

\* C4 (amended): the retry action is available in error only and reloads the
\* page: whatever step failed, the wizard is put in idle with an empty
\* Session Context, a cleared single-fire guard and no request outstanding.
C4_RetryRestarts ==
  [][(reloads' = reloads + 1)
       => /\ status = "error"
          /\ status' = "idle"
          /\ EmptyContext'
          /\ ~hasChecked' /\ errorMessage' = "" /\ procs' = {} /\ log' = <<>>]_vars

\* retried after a failure, before the mount effect has run again
C4_Witness == reloads = 1 /\ status = "idle" /\ mounts = 0 /\ backendUrl

\* C5 (as stated): in error after a failed phone, code or account step there
\* is a back action that puts the wizard in the step preceding the one that
\* failed.
C5_Original ==
  (status = "error" /\ FailedStep \in FormSteps)
    => ENABLED (Next /\ status' = PrecedingStep(FailedStep))

\* C5 (amended): error is left only by the retry action, and only for idle;
\* no action puts the wizard in the step preceding the failed one.
C5_ErrorLeftOnlyByRetry ==
  [][(status = "error" /\ status' # "error")
       => (reloads' = reloads + 1 /\ status' = "idle")]_vars

\* error after a failed phone step: the preceding step would be id-verified
C5_Witness ==
  /\ status = "error" /\ FailedStep = "phone-entry"
  /\ reloads < MaxReloads
  /\ ~ENABLED (Next /\ status' = "id-verified")

StepCalls == SelectSeq(log, LAMBDA r : r.url # "resendCode")

HappyPath ==
  <<"checkTelegramID", "share-contact", "device-session-start", "SIM-Verify",
    "verifyCode", "verifyCustomer">>

\* the first n calls of the happy path were issued, in order, and succeeded
HappyPrefix(n) ==
  /\ Len(StepCalls) = n
  /\ \A i \in 1..n : StepCalls[i].url = HappyPath[i] /\ StepCalls[i].res = "ok"

\* C6 (as stated): the happy path makes exactly five successful backend calls
\* and ends in completed.
C6_Original ==
  status = "completed"
    => Cardinality({i \in 1..Len(StepCalls) : StepCalls[i].res = "ok"}) = 5

\* C6 (amended): continue, submit phone, submit code, submit account number
\* (there is no PIN step) make exactly six successful backend calls, in the
\* order checkTelegramID, share-contact, device-session-start, SIM-Verify,
\* verifyCode, verifyCustomer, and end in completed.
C6_HappyPathSixCalls ==
  /\ status \in {"id-verified", "phone-entry"} => HappyPrefix(1)
  /\ status = "otp-entry" => HappyPrefix(4)
  /\ status = "account-entry" => HappyPrefix(5)
  /\ status = "completed" => HappyPrefix(6)

C6_Witness == status = "completed" /\ Len(log) = 6 /\ reloads = 0

\* C7 (as stated): the session id returned by device-session-start is stored
\* in the Session Context and sent by the later calls.
C7_Original ==
  \A i \in 1..Len(log) :
    (log[i].url = "device-session-start" /\ log[i].res = "ok")
      => /\ "session_id" \in DOMAIN SessionContext
         /\ \A j \in (i + 1)..Len(log) : "session_id" \in DOMAIN log[j].payload

\* C7 (amended): the only value produced in one step and sent in a later one
\* is the device id of the fingerprint record: the record is in the Session
\* Context from the moment device-session-start is issued, and verifyCustomer
\* sends the device id that device-session-start sent.  No request carries a
\* session id, a customer id or a product code.
C7_DeviceIdThreaded ==
  \A i \in 1..Len(log) :
    /\ log[i].url = "device-session-start"
         => cachedDeviceInfo = Some(log[i].payload.device_info)
    /\ log[i].url = "verifyCustomer"
         => \E j \in 1..(i - 1) :
              /\ log[j].url = "device-session-start" /\ log[j].res = "ok"
              /\ log[i].payload.device_id = log[j].payload.device_info.device_id
    /\ DOMAIN log[i].payload \cap {"session_id", "customer_id", "product_code"} = {}

C7_Witness ==
  \E i \in 1..Len(log) :
    /\ log[i].url = "verifyCustomer"
    /\ log[i].payload.device_id = "dev2"
    /\ log[3].body.session_id = "sess1"

\* C8: a resendCode request is issued only in otp-entry, and neither issuing
\* it nor its return, successful or failed, in whatever step the return
\* happens, changes the step state or the stored error message.
C8_ResendIsSideAction ==
  [][/\ (Len(log') = Len(log) + 1 /\ log'[Len(log')].url = "resendCode")
          => (status = "otp-entry" /\ status' = status /\ errorMessage' = errorMessage)
     /\ (reloads' = reloads /\ \E p \in procs : p.h = "resend" /\ p \notin procs')
          => (status' = status /\ errorMessage' = errorMessage)]_vars

\* a resend failed after the wizard had left otp-entry
C8_Witness ==
  /\ status = "account-entry"
  /\ lastAlert = "Failed to resend code"
  /\ errorMessage = ""
  /\ \E i \in 1..Len(log) : log[i].url = "resendCode" /\ log[i].res = "fail"

\* the status shown while the calls of a handler are outstanding
LoadingOf(h) ==
  CASE h = "check" -> "checking"
    [] h = "phone" -> "processing-registration"
    [] h = "otp" -> "verifying-otp"
    [] OTHER -> "verifying-customer"

\* C9: at most one step (identity check, phone, code, account) is in flight:
\* at most one step handler is suspended, at most one request of a step is
\* pending, and while it is the loading screen of that step is shown.
C9_OneStepInFlight ==
  /\ Cardinality(StepProcs) <= 1
  /\ Cardinality({i \in 1..Len(log) : log[i].res = "pending" /\ log[i].url # "resendCode"}) <= 1
  /\ \A p \in StepProcs : status = LoadingOf(p.h)

\* the code step in flight while a resend request is still outstanding
C9_Witness ==
  /\ \E p \in procs : p.h = "otp"
  /\ \E p \in procs : p.h = "resend"

\* the status a handler sets when all its calls have succeeded
SuccessOf(h) ==
  CASE h = "check" -> "id-verified"
    [] h = "phone" -> "otp-entry"
    [] h = "otp" -> "account-entry"
    [] OTHER -> "completed"

\* C10: while a step is in flight every transition either keeps the handler
\* suspended and the step state unchanged, or is the return of the handler's
\* last call: then the step state becomes the success state of the step when
\* the call succeeded and error when it failed.
C10_NoAbort ==
  [][\A p \in StepProcs :
       \/ /\ status' = status
          /\ \E q \in procs' : q.h = p.h
       \/ /\ procs' \subseteq procs \ {p}
          /\ p.req \in 1..Len(log')
          /\ log[p.req].res = "pending"
          /\ \/ log'[p.req].res = "ok" /\ status' = SuccessOf(p.h) /\ p.at \in {"checkTelegramID", "SIM-Verify", "verifyCode", "verifyCustomer"}
             \/ log'[p.req].res = "fail" /\ status' = "error"]_vars

\* the phone step between its second and third call
C10_Witness ==
  /\ status = "processing-registration"
  /\ \E p \in procs : p.at = "SIM-Verify"
\* ---------------------------------------------- properties of the resolver
\* what the three sources hold, in resolution order
SourceUsers(e) == <<SdkUser(e), UnsafeUser(e), UrlUser(e)>>

\* a user record with an id
UsableId(u) == u # None /\ u[1].id # 0

UsableSources(e) == {n \in 1..3 : UsableId(SourceUsers(e)[n])}

\* C11 (as stated): when more than one source holds a usable identity, the
\* resolved identity is that of the earliest such source.
C11_Original ==
  (mounts >= 1 /\ Cardinality(UsableSources(tgEnv)) >= 2)
    => currentUser =
         SourceUsers(tgEnv)[CHOOSE n \in UsableSources(tgEnv) :
                              \A m \in UsableSources(tgEnv) : n <= m]

\* C12 (as stated): when exactly one source holds a usable id, the resolved
\* identity is that source's and the identity check is issued; an identity
\* without an id is never produced, and error is entered only because a
\* request failed.
C12_Original ==
  mounts >= 1
    => /\ \A n \in 1..3 :
            UsableSources(tgEnv) = {n}
              => /\ currentUser = SourceUsers(tgEnv)[n]
                 /\ CountUrl("checkTelegramID") = 1
       /\ currentUser # None => UsableId(currentUser)
       /\ status = "error" => FailedCalls # {}

SdkToken(e) == IF e.sdk.throws THEN Undef ELSE e.sdk.raw
HostToken(e) == IF e.webApp.present THEN e.webApp.raw ELSE Undef
UrlToken(e) == e.url.data

\* C15 (as stated): after the mount effect the stored token is that of the
\* first source, in the order launch parameters, host object, URL, that
\* supplies one, whichever source the identity came from (the case without
\* an identity, where nothing is stored at all, is left aside).
C15_Original ==
  (mounts >= 1 /\ UsableId(currentUser))
    => initDataRawString =
         (IF SdkToken(tgEnv) # Undef THEN SdkToken(tgEnv)
          ELSE IF HostToken(tgEnv) # Undef THEN HostToken(tgEnv)
          ELSE UrlToken(tgEnv))

\* C15 (amended): a token is stored only when a user record was resolved.  It
\* is the launch-parameter token when there is one, else the host object's
\* initData when the host object is there; the URL data is taken as the token
\* only when neither of them supplies one and neither holds a user record.
C15_TokenFollowsIdentity ==
  mounts >= 1
    => /\ currentUser = None => initDataRawString = Undef
       /\ currentUser # None =>
            /\ SdkToken(tgEnv) # Undef => initDataRawString = SdkToken(tgEnv)
            /\ (SdkToken(tgEnv) = Undef /\ HostToken(tgEnv) # Undef)
                 => initDataRawString = HostToken(tgEnv)
            /\ (SdkToken(tgEnv) = Undef /\ HostToken(tgEnv) = Undef)
                 => initDataRawString =
                      (IF SdkUser(tgEnv) = None /\ UnsafeUser(tgEnv) = None
                         THEN UrlToken(tgEnv) ELSE Undef)

\* identity from the launch parameters, a token in the URL only: not captured
C15_Witness ==
  /\ mounts >= 1
  /\ currentUser = Some([id |-> 1, named |-> TRUE])
  /\ SdkToken(tgEnv) = Undef /\ HostToken(tgEnv) = Undef /\ UrlToken(tgEnv) = "tok_url"
  /\ initDataRawString = Undef

\* ------------------------------------------- properties of the sequencer
TerminalStatuses == {"invalid-environment", "completed"}

\* C14: once invalid-environment or completed is entered the step state
\* never changes and no request is started, by a user action or by another
\* run of the mount effect.
C14_Terminal ==
  [][(status \in TerminalStatuses)
       => (status' = status /\ Len(log') = Len(log) /\ procs' \subseteq procs)]_vars

\* completed, the mount effect run twice, a resend still outstanding
C14_Witness ==
  /\ status = "completed" /\ mounts = 2
  /\ \E p \in procs : p.h = "resend"

\* C16 (as stated): every request issued in a page whose resolution captured
\* a token carries that token in X-Telegram-Init.
C16_Original ==
  InitHeader(initDataRawString) # "absent"
    => \A i \in 1..Len(log) : log[i].init = initDataRawString

\* C17: in error after a non-success response, the message shown is the
\* server's message when the body parsed and held one, and the message built
\* from the status text otherwise.
C17_ServerMessagePreferred ==
  \A i \in FailedCalls :
    /\ status = "error"
    /\ log[i].outcome = "http_msg" => errorMessage = "server message"
    /\ log[i].outcome = "http_nomsg" => errorMessage = "Request failed: status text"

\* SIM-Verify answered with a non-success status and no usable body
C17_Witness ==
  /\ status = "error"
  /\ \E i \in FailedCalls : log[i].url = "SIM-Verify" /\ log[i].outcome = "http_nomsg"
  /\ errorMessage = "Request failed: status text"

\* C18: short of a reload, a populated identity, token or cached device
\* record is never cleared, whatever the step and its outcome.
C18_ContextOnlyGrows ==
  [][reloads' = reloads
       => /\ currentUser # None => currentUser' = currentUser
          /\ initDataRawString # Undef => initDataRawString' = initDataRawString
          /\ cachedDeviceInfo # None => cachedDeviceInfo' = cachedDeviceInfo]_vars

\* the phone step failed at its last call with every field populated
C18_Witness ==
  /\ status = "error"
  /\ currentUser # None /\ initDataRawString = "tok_sdk" /\ cachedDeviceInfo # None
  /\ \E i \in FailedCalls : log[i].url = "SIM-Verify"

C20_MissingUrlIsFatal ==
  ~backendUrl
    => /\ log = <<>> /\ procs = {}
       /\ currentUser = None /\ initDataRawString = Undef /\ ~hasChecked
       /\ status \in {"idle", "error"}
       /\ mounts >= 1 => /\ status = "error"
                         /\ errorMessage = "The backend URL is not configured correctly."

\* the mount effect ran twice without a backend URL
C20_Witness == ~backendUrl /\ mounts = 2 /\ status = "error" /\ IdentityUsable

\* C21 (as stated): in the error state entered because the backend URL is
\* missing, no user action is offered that retries or restarts the wizard.
C21_Original ==
  (status = "error" /\ ~backendUrl) => ~ENABLED Reload

\* this step settles the outstanding call of handler h with result res and
\* issues no further request
CallSettled(h, res) ==
  /\ Len(log') = Len(log)
  /\ \E p \in procs : /\ p.h = h /\ p \notin procs'
                      /\ log[p.req].res = "pending" /\ log'[p.req].res = res

\* this step issues exactly one request, to url
OneCallIssued(url) ==
  /\ Len(log') = Len(log) + 1
  /\ log'[Len(log')].url = url
  /\ \A i \in 1..Len(log) : log'[i] = log[i]

\* C22: the identity check leaves `checking` for id-verified only when
\* checkTelegramID returned success and for error when it failed;
\* id-verified is entered in no other way, and the only transition out of
\* id-verified is to phone-entry (the continue action), which issues no
\* backend request.
C22_IdentityCheckTransitions ==
  /\ [][(status = "checking" /\ status' # status)
          => \/ status' = "id-verified" /\ CallSettled("check", "ok")
             \/ status' = "error" /\ CallSettled("check", "fail")]_vars
  /\ [][(status' = "id-verified" /\ status # "id-verified") => status = "checking"]_vars
  /\ [][(status = "id-verified" /\ status' # status)
          => (status' = "phone-entry" /\ log' = log /\ procs' = procs)]_vars

\* the user continued after a successful identity check: one settled request
C22_Witness ==
  /\ status = "phone-entry"
  /\ Len(log) = 1 /\ log[1].url = "checkTelegramID" /\ log[1].res = "ok"
  /\ procs = {}

\* C23: a submitted code issues exactly one verifyCode request and no other
\* verifyCode is issued while it is outstanding; its success moves the
\* wizard from verifying-otp to account-entry and its failure to error, and
\* account-entry is entered in no other way.
C23_CodeStep ==
  /\ [][(status = "otp-entry" /\ status' # status)
          => (status' = "verifying-otp" /\ OneCallIssued("verifyCode"))]_vars
  /\ [][(status = "verifying-otp")
          => (CountUrl("verifyCode"))' = CountUrl("verifyCode")]_vars
  /\ [][(status = "verifying-otp" /\ status' # status)
          => \/ status' = "account-entry" /\ CallSettled("otp", "ok")
             \/ status' = "error" /\ CallSettled("otp", "fail")]_vars
  /\ [][(status' = "account-entry" /\ status # "account-entry")
          => status = "verifying-otp"]_vars

\* the code was verified: the last step request is a successful verifyCode
C23_Witness ==
  /\ status = "account-entry"
  /\ CountUrl("verifyCode") = 1
  /\ \E i \in 1..Len(log) : log[i].url = "verifyCode" /\ log[i].res = "ok"

\* C24 (as stated): a submitted account number triggers customer
\* verification followed by product validation; when both succeed the wizard
\* enters the PIN step, when either fails it enters error.
C24_Original ==
  [][(status = "verifying-customer" /\ status' \notin {status, "error"})
       => /\ status' = "pin-entry"
          /\ \E i \in 1..Len(log') : log'[i].url = "validateProduct" /\ log'[i].res = "ok"]_vars

\* C24 (amended): a submitted account number issues exactly one request,
\* verifyCustomer; no product validation follows it; its success moves the
\* wizard from verifying-customer to completed and its failure to error.
C24_AccountStep ==
  /\ [][(status = "account-entry" /\ status' # status)
          => (status' = "verifying-customer" /\ OneCallIssued("verifyCustomer"))]_vars
  /\ [][(status = "verifying-customer") => Len(log') = Len(log)]_vars
  /\ [][(status = "verifying-customer" /\ status' # status)
          => \/ status' = "completed" /\ CallSettled("account", "ok")
             \/ status' = "error" /\ CallSettled("account", "fail")]_vars

\* the customer verification failed
C24_Witness ==
  /\ status = "error"
  /\ Len(log) > 0
  /\ log[Len(log)].url = "verifyCustomer" /\ log[Len(log)].res = "fail"

\* C25 (as stated): completed is entered only from the PIN step, as the
\* success outcome of the finalize-registration call.
C25_Original ==
  [][(status' = "completed" /\ status # "completed")
       => /\ status = "verifying-pin"
          /\ \E i \in 1..Len(log') : log'[i].url = "finalizeRegistration" /\ log'[i].res = "ok"]_vars

\* C25 (amended): completed is entered only from verifying-customer, as the
\* success outcome of the verifyCustomer request of the account step, which
\* is the last request of the attempt; no PIN is submitted and no
\* finalize-registration request exists.
C25_CompletedOnlyFromAccountStep ==
  /\ [](status = "completed"
          => /\ Len(log) > 0
             /\ log[Len(log)].url = "verifyCustomer" /\ log[Len(log)].res = "ok"
             /\ \A i \in 1..Len(log) : log[i].url \notin {"validateProduct", "finalizeRegistration"})
  /\ [][(status' = "completed" /\ status # "completed")
          => status = "verifying-customer"]_vars

\* the wizard completed
C25_Witness ==
  /\ status = "completed"
  /\ CountUrl("verifyCustomer") = 1
  /\ procs = {}

\* C26 (as stated): a back action from account-entry puts the wizard in
\* phone-entry.
C26_Original ==
  status = "account-entry" => ENABLED (Next /\ status' = "phone-entry")

\* C26 (amended): there is no back action: the only transition out of
\* account-entry is the submission, to verifying-customer, and neither
\* account-entry nor verifying-customer is ever followed by phone-entry or
\* otp-entry.
C26_NoBackFromAccount ==
  /\ [][(status = "account-entry" /\ status' # status)
          => status' = "verifying-customer"]_vars
  /\ [][(status \in {"account-entry", "verifying-customer"})
          => status' \notin {"phone-entry", "otp-entry"}]_vars

\* the account form is shown with an account number typed in
C26_Witness == status = "account-entry" /\ accountNumber # ""

\* a device record with every field set and the lookup fields at their defaults
DefaultsRecord(d) ==
  /\ DOMAIN d = {"device_id", "fingerprint", "geo_location", "ip_address"}
  /\ d.device_id \in DeviceIds
  /\ d.fingerprint = Fingerprint(d.device_id)
  /\ d.geo_location = [city |-> "Unknown", country |-> "Unknown",
                       lat |-> <<"string", 0>>, lon |-> <<"string", 0>>]
  /\ d.ip_address = "0.0.0.0"

\* C27: when the ipapi.co lookup of getDeviceInfo() fails (network error,
\* abort by the timer, non-success status, unparsable body), the collection
\* resolves with a complete record whose geolocation and IP fields hold their
\* defaults, and the phone step stays in processing-registration and issues
\* device-session-start with that record.
C27_LookupFailureTolerated ==
  /\ [](ipLookup \in IpFailures
          => /\ cachedDeviceInfo # None
             /\ DefaultsRecord(cachedDeviceInfo[1])
             /\ \E i \in 1..Len(log) :
                  /\ log[i].url = "device-session-start"
                  /\ log[i].payload.device_info = cachedDeviceInfo[1])
  /\ [][(ipLookup' \in IpFailures /\ ipLookup \notin IpFailures)
          => /\ status' = status /\ status = "processing-registration"
             /\ OneCallIssued("device-session-start")]_vars

\* the lookup was aborted by the timer and device-session-start is outstanding
C27_Witness ==
  /\ ipLookup = "abort"
  /\ status = "processing-registration"
  /\ Len(log) > 0
  /\ log[Len(log)].url = "device-session-start" /\ log[Len(log)].res = "pending"

\* C28 (as stated): getDeviceInfo() always terminates, also when the lookup
\* never delivers its response headers or its body: a phone step waiting for
\* the fingerprint eventually stops waiting for it.
C28_Original ==
  (\E p \in procs : p.at \in IpStages) ~> (\A p \in procs : p.at \notin IpStages)

\* C29: the sequencer (the children of TelegramInitializer) is mounted only
\* after the host object was found and tg.ready() called; until then only the
\* initializing or the waiting screen is rendered and the sequencer has done
\* nothing; and when the host object was absent at the immediate attempt and
\* at the 100 ms retry, the waiting screen stays.
C29_MountedOnlyWhenHostReady ==
  /\ [](mounts > 0 => (telegramReady /\ hostReady /\ HostPresent))
  /\ [](~hostReady
          => /\ Screen \in {"initializing", "waiting"}
             /\ mounts = 0 /\ status = "idle" /\ log = <<>>)
  /\ [][(bootstrapTimer = "fired" /\ ~telegramReady)
          => (Screen' = "waiting" /\ mounts' = 0)]_vars

\* the host object appeared only in time for the 100 ms retry, and the
\* sequencer then ran its mount effect
C29_Witness ==
  /\ bootstrapTimer = "fired" /\ telegramReady
  /\ mounts >= 1 /\ status = "checking"

\* the endpoints whose payload carries the telegram id as a number
NumberIdUrls == {"checkTelegramID", "share-contact"}

\* the endpoints whose payload carries it as a string
StringIdUrls ==
  {"device-session-start", "SIM-Verify", "verifyCode", "resendCode", "verifyCustomer"}

\* C30: checkTelegramID and share-contact carry the telegram id as a number;
\* device-session-start, SIM-Verify, verifyCode, resendCode and
\* verifyCustomer carry it converted to a string; every request issued since
\* the page was loaded denotes the id of the resolved user.
C30_IdFormatPerEndpoint ==
  \A i \in 1..Len(log) :
    /\ log[i].url \in NumberIdUrls \cup StringIdUrls
    /\ log[i].url \in NumberIdUrls => log[i].payload.telegram_id[1] = "number"
    /\ log[i].url \in StringIdUrls => log[i].payload.telegram_id[1] = "string"
    /\ currentUser # None /\ log[i].payload.telegram_id[2] = currentUser[1].id

\* every endpoint has been called in one attempt
C30_Witness ==
  /\ status = "completed"
  /\ \A u \in NumberIdUrls \cup StringIdUrls : CountUrl(u) >= 1

\* the position in the request log of the only call to url (0 when there is
\* none or more than one)
CallIndex(url) ==
  IF CountUrl(url) = 1 THEN CHOOSE i \in 1..Len(log) : log[i].url = url ELSE 0

\* C31: completed is entered only after checkTelegramID, share-contact,
\* device-session-start, SIM-Verify, verifyCode and verifyCustomer have each
\* been issued once and returned success, in that order, since the page was
\* loaded; no step call of the attempt has failed or is outstanding.
C31_CompletedNeedsAllCalls ==
  /\ [](status = "completed"
          => /\ \A k \in 1..Len(HappyPath) :
                  /\ CallIndex(HappyPath[k]) > 0
                  /\ log[CallIndex(HappyPath[k])].res = "ok"
                  /\ k > 1 => CallIndex(HappyPath[k - 1]) < CallIndex(HappyPath[k])
             /\ FailedCalls = {}
             /\ StepProcs = {})
  /\ [][(status' = "completed" /\ status # "completed")
          => \A k \in 1..(Len(HappyPath) - 1) :
               \E i \in 1..Len(log) : log[i].url = HappyPath[k] /\ log[i].res = "ok"]_vars

\* completed in the attempt that followed a failed one and a reload
C31_Witness ==
  /\ status = "completed" /\ reloads = 1
  /\ \A k \in 1..Len(HappyPath) : CallIndex(HappyPath[k]) > 0

\* C32: wherever a submission form is shown (phone-entry, otp-entry,
\* account-entry) the resolved identity is set, and in account-entry the
\* cached device record is set: a submission with its input filled in is never
\* dropped by the handlers' early returns but starts the step's request.
C32_FormsHaveIdentity ==
  /\ status \in FormSteps => currentUser # None
  /\ status = "account-entry" => cachedDeviceInfo # None
  /\ (status = "phone-entry" /\ phoneNumber # <<>> /\ PhoneValid(phoneNumber))
       => ENABLED (handlePhoneSubmit /\ status' = PhoneLoadingStatus)
  /\ (status = "otp-entry" /\ activationCode # "")
       => ENABLED (handleOtpSubmit /\ status' = OtpLoadingStatus)
  /\ (status = "account-entry" /\ accountNumber # "")
       => ENABLED (handleAccountSubmit /\ status' = AccountLoadingStatus)

\* the account form with the identity and the device record it needs
C32_Witness ==
  /\ status = "account-entry" /\ accountNumber # ""
  /\ currentUser # None /\ cachedDeviceInfo # None

\* the requests that carry the phone number the user entered
PhoneCalls == {i \in 1..Len(log) : log[i].url # "checkTelegramID"}

\* C33: the phone number cannot change once phone-entry has been left: every
\* request issued since the page was loaded that carries the entered phone
\* number (share-contact, device-session-start, SIM-Verify, verifyCode,
\* resendCode, verifyCustomer) carries the same one, the one the component
\* still holds.
C33_PhoneNumberFixed ==
  /\ [](\A i \in PhoneCalls : log[i].payload.phone_number = phoneNumber)
  /\ [][(status # "phone-entry" /\ reloads' = reloads) => phoneNumber' = phoneNumber]_vars

\* verifyCustomer was issued with the number the phone step had sent
C33_Witness ==
  /\ CountUrl("verifyCustomer") = 1 /\ CountUrl("share-contact") = 1
  /\ CountUrl("resendCode") = 1
  /\ \A i \in PhoneCalls : log[i].payload.phone_number = phoneNumber
  /\ Len(phoneNumber) >= 5

\* the outcomes with a response that is not a usable success
RejectedOutcomes == {"badjson", "http_msg", "http_nomsg"}

\* C34: a request counts as successful only when the response has a success
\* status and its body parses as JSON: a success status with an empty or
\* unparsable body fails the call, and the step moves to error with the
\* thrown message, exactly as for a non-success response (the resend side
\* action only alerts, for either).
C34_UnparsableBodyFails ==
  /\ [](\A i \in 1..Len(log) : log[i].res = "ok" <=> log[i].outcome = "ok")
  /\ [][\A i \in 1..Len(log) :
          (i <= Len(log') /\ log[i].outcome = "pending"
             /\ log'[i].outcome \in RejectedOutcomes)
            => /\ log'[i].res = "fail"
               /\ log'[i].err = ErrMessage(log'[i].outcome)
               /\ Len(log') = Len(log)
               /\ IF log[i].url = "resendCode"
                    THEN status' = status /\ lastAlert' = "Failed to resend code"
                    ELSE status' = "error" /\ errorMessage' = log'[i].err]_vars

\* verifyCode answered with a success status and a body that does not parse
C34_Witness ==
  /\ status = "error"
  /\ Len(log) > 0
  /\ log[Len(log)].url = "verifyCode" /\ log[Len(log)].outcome = "badjson"
  /\ errorMessage = "Unexpected end of JSON input"

\* the states in which the wizard waits for the user or has ended
RestingStatuses ==
  {"id-verified", "phone-entry", "otp-entry", "account-entry", "completed", "error",
   "invalid-environment"}

\* C35: when every issued backend request and every device fingerprint
\* collection eventually completes, no loading state (checking,
\* processing-registration, verifying-otp, verifying-customer) lasts forever:
\* each is eventually followed by a screen that waits for the user
\* (id-verified or a form), by completed, by error or by invalid-environment.
C35_LoadingEnds ==
  \A s \in LoadingStatuses : (status = s) ~> (status \in RestingStatuses)

\* the account step is waiting for verifyCustomer
C35_Witness ==
  /\ status = "verifying-customer"
  /\ \E p \in procs : p.h = "account" /\ log[p.req].res = "pending"

\* the position of url in the happy path (0 for the resend side action)
PathIndex(url) ==
  IF \E k \in 1..Len(HappyPath) : HappyPath[k] = url
    THEN CHOOSE k \in 1..Len(HappyPath) : HappyPath[k] = url
    ELSE 0

\* every step request in the log has all the calls that precede it on the
\* happy path before it in the log, each returned with success
NothingSkipped ==
  \A i \in 1..Len(log) :
    \A k \in 1..(PathIndex(log[i].url) - 1) :
      \E j \in 1..(i - 1) : log[j].url = HappyPath[k] /\ log[j].res = "ok"

\* C36: in error no request is issued and the only way out is the page
\* reload, which leaves the wizard in idle with an empty Session Context
\* (identity, token, phone number, code, account number, device record), a
\* cleared single-fire guard, no handler suspended and an empty request log;
\* after it a new checkTelegramID is issued at the next mount, and every
\* request of the new attempt is preceded, within that attempt, by all the
\* calls that come before it, those that had succeeded earlier included.
C36_ReloadRestartsEverything ==
  /\ [][(status = "error")
          => /\ Len(log') <= Len(log)
             /\ status' # "error"
                  => /\ reloads' = reloads + 1
                     /\ status' = "idle" /\ EmptyContext' /\ errorMessage' = ""
                     /\ ~hasChecked' /\ procs' = {} /\ log' = <<>> /\ mounts' = 0]_vars
  /\ []((reloads >= 1 /\ mounts >= 1 /\ backendUrl /\ IdentityUsable)
          => CountUrl("checkTelegramID") = 1)
  /\ [](reloads >= 1 => NothingSkipped)

\* the phone step was submitted again after a reload and has gone through its
\* three calls
C36_Witness ==
  /\ reloads = 1 /\ status = "otp-entry"
  /\ CountUrl("share-contact") = 1 /\ CountUrl("SIM-Verify") = 1

\* C37: the initializer makes at most two bootstrap attempts per mount, the
\* first in the effect and the second only from the 100 ms timer; when the
\* host object was absent at both, the initializer never becomes ready
\* afterwards, even when the host object appears later; and once the cleanup
\* has cleared the timer, no second attempt of that mount is made.
C37_TwoAttemptsThenWaiting ==
  /\ [](attempts <= 2)
  /\ [][(attempts' = 2 /\ attempts # 2)
          => (attempts = 1 /\ bootstrapTimer = "pending" /\ bootstrapTimer' = "fired")]_vars
  /\ [][(attempts = 2 /\ ~telegramReady)
          => (~telegramReady' /\ attempts' = 2 /\ Screen' = "waiting")]_vars
  /\ [][(bootstrapTimer = "cleared") => attempts' <= 1]_vars
  /\ [][(telegramReady' /\ ~telegramReady) => (attempts' = attempts + 1 \/ attempts' = 1)]_vars

\* both attempts found no host object, which appeared afterwards: the waiting
\* screen is still shown
C37_Witness ==
  /\ attempts = 2 /\ bootstrapTimer = "fired"
  /\ HostPresent /\ ~telegramReady /\ Screen = "waiting"

\* the per-call statuses of the phone step seen as the combined one
MappedStatus(s) ==
  IF s \in {"submitting-phone", "starting-session", "sim-verifying"}
    THEN "processing-registration"
    ELSE s

\* the requests of the full revision, by endpoint, payload and header
CallsIssued ==
  [i \in 1..Len(log) |-> [url |-> log[i].url, payload |-> log[i].payload, init |-> log[i].init]]

\* C38: run on the same user actions and backend outcomes, the revision with
\* the statuses submitting-phone, starting-session and sim-verifying and the
\* revision with the single status processing-registration have issued the
\* same requests (endpoint, payload and X-Telegram-Init header) in the same
\* order and are in the same step state once the three statuses are mapped
\* to processing-registration.
C38_Original ==
  /\ MappedStatus(perCall.status) = status
  /\ perCall.calls = CallsIssued

\* what the two revisions do agree on: the mapped step state and the
\* endpoint and payload of every request
SameStepsAndBodies ==
  /\ MappedStatus(perCall.status) = status
  /\ Len(perCall.calls) = Len(log)
  /\ \A i \in 1..Len(log) :
       /\ perCall.calls[i].url = log[i].url
       /\ perCall.calls[i].payload = log[i].payload
====
